---- MODULE Spec2Model ----
(***************************************************************************)
(* Refresh-session service of the project template:                        *)
(*   src/src/infrastructure/django/refresh_sessions/services.py            *)
(*   src/src/infrastructure/django/refresh_sessions/models.py              *)
(*   src/src/delivery/http/user/controllers.py                             *)
(* with the token codec and the authentication gate in front of it:        *)
(*   src/src/infrastructure/jwt/services.py                                *)
(*   src/src/infrastructure/fastapi/auth.py                                *)
(*   src/src/infrastructure/delivery/controllers.py                        *)
(*   src/src/core/user/services.py                                         *)
(* and the plumbing of the application around them:                        *)
(*   src/src/core/health/services.py                                       *)
(*   src/src/delivery/http/health/controllers.py                           *)
(*   src/src/infrastructure/django/settings/pydantic_adapter.py            *)
(*   src/src/infrastructure/punq/container.py                              *)
(*                                                                         *)
(* The RefreshSession table is a set of rows.  create_refresh_session is   *)
(* a single INSERT.  rotate_refresh_token and revoke_refresh_token run     *)
(* under @transaction.atomic: a SELECT by refresh_token_hash (no           *)
(* select_for_update) followed by save(update_fields=...), i.e. an UPDATE  *)
(* of the named columns WHERE id = pk.  Transactions of different workers  *)
(* interleave between the SELECT and the UPDATE (statement-level           *)
(* snapshots, the READ COMMITTED default of Django's server backends).     *)
(***************************************************************************)
EXTENDS Integers, FiniteSets, Sequences, TLC

\* ---------------------------------------------------------------- bounds
NumUsers == 2
NumWorkers == 2
MaxTokens == 3
MaxSessions == 2
MaxTime == 2
NumClasses == 2
MaxAnnotations == 2
NumValues == 3
MaxRegistrations == 1

\* refresh_token_ttl: the unit of the clock is the time to live of a refresh
\* token (refresh_token_ttl_days, 30 days)
RefreshTtl == 1

Users == 1..NumUsers
Workers == 1..NumWorkers
NULL == -1

\* secrets.token_urlsafe(nbytes): the raw tokens the random source can yield
Tokens == {<<"tok", n>> : n \in 1..MaxTokens}

\* the requests a session is created from: user-agent header, client address
Requests == {[ua |-> <<"ua", 1>>, client |-> <<"ip", 1>>]}
EmptyText == <<>>
NoText == <<"null">>

VARIABLES
    sessions,     \* the RefreshSession table: a set of rows
    nextId,       \* the next primary key (uuid) to hand out
    now,          \* timezone.now()
    issued,       \* raw tokens returned to callers so far
    issuedTo,     \* pairs <<raw token, user>>: whose session a token was returned for
    draws,        \* how often the random source has been drawn from
    pc,           \* per worker: "idle", or inside the "rotate"/"revoke" transaction
    snap,         \* per worker: the model instance read by _get_refresh_session
    arg,          \* per worker: the refresh_token argument of the open call
    last,         \* the outcome of the call that completed most recently
    rotatedOk,    \* per presented token: rotate calls that returned success
    revoked,      \* tokens for which revoke_refresh_token returned success
    okRotations,  \* per session id: rotate calls that returned success
    current,      \* per session id: the token returned last for the session
    users,        \* the User table: a set of rows
    resp,         \* the HTTP response sent most recently
    access,       \* the token JWTService.issue_access_token returned last
    settings_locals, \* the namespace of the Django settings module
    annotations,  \* per class: the annotations of its __init__, in order
    registrations, \* per service key: the registrations of the container
    stack,        \* the open calls of _register_if_missing, innermost last
    resolution,   \* the outcome of the resolve call that completed last
    registerCalls \* per service key: register calls made by the container

\* the state of the refresh-session service, and the state of the HTTP layer
svars == <<sessions, nextId, now, issued, issuedTo, draws, pc, snap, arg, last,
           rotatedOk, revoked, okRotations, current>>
hvars == <<users, resp>>

\* the state of the application's plumbing: token codec, settings adapter,
\* container
avars == <<access, settings_locals, annotations, registrations, stack, resolution,
           registerCalls>>

vars == <<sessions, nextId, now, issued, issuedTo, draws, pc, snap, arg, last,
          rotatedOk, revoked, okRotations, current, users, resp,
          access, settings_locals, annotations, registrations, stack, resolution,
          registerCalls>>

\* ------------------------------------------------------- pure functions
\* _hash_refresh_token: sha256(token).hexdigest(), a digest in another
\* alphabet than the token; distinct tokens of the pool have distinct digests
IdentityHash(refresh_token) == refresh_token

_hash_refresh_token(refresh_token) ==
    <<"sha256", refresh_token[2] * 3 + 1>>

\* BaseRefreshSession.is_active at clock value t
IsActiveInclusive(session, t) ==
    session.revoked_at = NULL /\ session.expires_at >= t

is_active(session, t) ==
    session.revoked_at = NULL /\ session.expires_at > t

\* _get_user_agent: request.headers.get("user-agent", "")
_get_user_agent(request) ==
    IF request.ua = <<"absent">> THEN EmptyText ELSE request.ua

\* _is_valid_ip
_is_valid_ip(address) == address[1] = "ip"

\* _get_ip_address with num_proxies = 0 (the settings default)
_get_ip_address(request) ==
    IF request.client # <<"absent">> /\ _is_valid_ip(request.client)
    THEN request.client
    ELSE NoText

\* UserTokenController.handle_exception + Controller.handle_exception:
\* the HTTP status of an outcome of the service
handle_exception(status) ==
    CASE status = "InvalidRefreshTokenError" -> 401
      [] status = "ExpiredRefreshTokenError" -> 401
      [] status = "ok" -> 200
      [] OTHER -> 500

\* objects.get(refresh_token_hash=...): the rows matching a digest
RowsByHash(h) == {s \in sessions : s.refresh_token_hash = h}

\* save(update_fields=[...]) is an UPDATE ... WHERE id = pk: it raises
\* DatabaseError when no row has that primary key any more
RowExists(pk) == \E s \in sessions : s.id = pk

\* refresh_token_hash = CharField(unique=True): would writing digest h into
\* the row with primary key pk (0 for an INSERT) violate the unique index
NoUniqueIndex(h, pk) == FALSE

UniqueViolation(h, pk) ==
    \E s \in sessions : s.id # pk /\ s.refresh_token_hash = h

\* _get_refresh_session: the outcome of the lookup at the current clock
GetStatusNoActiveCheck(refresh_token) ==
    IF RowsByHash(_hash_refresh_token(refresh_token)) = {}
    THEN "InvalidRefreshTokenError"
    ELSE "ok"

_get_refresh_session(refresh_token) ==
    LET found == RowsByHash(_hash_refresh_token(refresh_token)) IN
    IF found = {} THEN "InvalidRefreshTokenError"
    ELSE IF ~is_active(CHOOSE s \in found : TRUE, now)
         THEN "ExpiredRefreshTokenError"
         ELSE "ok"

FoundSession(refresh_token) ==
    CHOOSE s \in RowsByHash(_hash_refresh_token(refresh_token)) : TRUE

\* the primary key of the row a token's digest matches, 0 when there is none
MatchedId(refresh_token) ==
    IF RowsByHash(_hash_refresh_token(refresh_token)) = {}
    THEN 0
    ELSE FoundSession(refresh_token).id

NoSession == [id |-> 0]
NoResult == [op |-> "none", status |-> "none", http |-> 0, arg |-> EmptyText,
             token |-> EmptyText, sid |-> 0]

Outcome(op, status, a, token, sid) ==
    [op |-> op, status |-> status, http |-> handle_exception(status),
     arg |-> a, token |-> token, sid |-> sid]

\* ------------------------------------------------ token codec, user table
\* access_token_expire: in the specifications of the HTTP layer the clock
\* ticks once per lifetime of an access token (access_token_expire_minutes)
AccessTtl == 1

\* JWTServiceSettings.secret_key and .algorithm; the other keys and
\* algorithms a presented token can name
Secret == <<"key", 1>>
Algorithm == "HS256"
Keys == {Secret, <<"key", 2>>}
NoClaim == <<"absent">>

\* str(user_id) of issue_access_token, and the int(...) that Django's
\* id lookup applies to the text it is given
str(user_id) == <<"str", user_id>>
int(text) == text[2]

\* the HMAC of the signing input under a key
Sign(payload, key, alg) == [key |-> key, alg |-> alg, payload |-> payload]

\* jwt.encode: header, payload and signature segments
jwt_encode(payload, key, alg) ==
    [segments |-> 3, alg |-> alg, payload |-> payload,
     signature |-> Sign(payload, key, alg)]

\* {**a, **b}: the keys of both dicts, the value of b where both have the key
DictMerge(a, b) ==
    [k \in DOMAIN a \cup DOMAIN b |-> IF k \in DOMAIN b THEN b[k] ELSE a[k]]

\* a call without keyword arguments
NoKwargs == [k \in {} |-> 0]

\* the payload dict of issue_access_token(user_id, **payload_kwargs) at
\* clock value t: the four claims of the service, then **payload_kwargs
access_token_payload(user_id, t, payload_kwargs) ==
    DictMerge([sub |-> str(user_id), exp |-> t + AccessTtl,
               iat |-> t, typ |-> "at+jwt"], payload_kwargs)

\* JWTService.issue_access_token(user_id) at clock value t
IssueForNextId(user_id, t) ==
    jwt_encode([sub |-> str(user_id + 1), exp |-> t + AccessTtl,
                iat |-> t, typ |-> "at+jwt"], Secret, Algorithm)

issue_access_token(user_id, t) ==
    jwt_encode(access_token_payload(user_id, t, NoKwargs), Secret, Algorithm)

\* jwt.ExpiredSignatureError is one of the subclasses of jwt.InvalidTokenError
EXPIRED_SIGNATURE_ERROR == {"ExpiredSignatureError"}
INVALID_TOKEN_ERROR ==
    {"DecodeError", "InvalidAlgorithmError", "InvalidSignatureError",
     "ExpiredSignatureError"}

\* JWTService.decode_token(token) at clock value t: jwt.decode parses the
\* segments, checks the algorithm and the signature, then the exp claim
DecodeIgnoresExpiry(token, t) ==
    IF token.segments # 3 THEN "DecodeError"
    ELSE IF token.alg # Algorithm THEN "InvalidAlgorithmError"
    ELSE IF token.signature # Sign(token.payload, Secret, Algorithm)
         THEN "InvalidSignatureError"
    ELSE "ok"

decode_token(token, t) ==
    IF token.segments # 3 THEN "DecodeError"
    ELSE IF token.alg # Algorithm THEN "InvalidAlgorithmError"
    ELSE IF token.signature # Sign(token.payload, Secret, Algorithm)
         THEN "InvalidSignatureError"
    ELSE IF token.payload.exp <= t THEN "ExpiredSignatureError"
    ELSE "ok"

\* User rows: AbstractUser with its username, password hash and flags
make_password(password) == <<"pbkdf2_sha256", password[2] * 5 + 2>>
check_password(password, encoded) == make_password(password) = encoded

UserRow(u, staff, superuser) ==
    [id |-> u, username |-> <<"name", u>>,
     password |-> make_password(<<"pw", u>>),
     is_staff |-> staff, is_superuser |-> superuser]

None == [id |-> 0]

\* User.objects.get(id=...)
UserExists(user_id) == \E u \in users : u.id = user_id
UserById(user_id) == CHOOSE u \in users : u.id = user_id

\* UserService.get_user_by_username_and_password
AcceptAnyPassword(username, password) ==
    LET found == {u \in users : u.username = username} IN
    IF found = {} THEN None
    ELSE CHOOSE u \in found : TRUE

get_user_by_username_and_password(username, password) ==
    LET found == {u \in users : u.username = username} IN
    IF found = {} THEN None
    ELSE LET user == CHOOSE u \in found : TRUE IN
         IF ~check_password(password, user.password) THEN None ELSE user

\* ------------------------------------------------- authentication gate
HTTPException(status_code, detail) ==
    [kind |-> "HTTPException", status_code |-> status_code, detail |-> detail]

\* an exception of another class, as the service or the database raises it
Raised(kind) == [kind |-> kind, status_code |-> 0, detail |-> ""]
NoException == Raised("none")

\* JWTAuthFactory.__call__: the gate a route is guarded by
JWTAuthFactory(require_staff, require_superuser) ==
    IF require_staff \/ require_superuser
    THEN [cls |-> "JWTAuthWithPermissions",
          require_staff |-> require_staff,
          require_superuser |-> require_superuser]
    ELSE [cls |-> "JWTAuth",
          require_staff |-> FALSE, require_superuser |-> FALSE]

NoGate == [cls |-> "none", require_staff |-> FALSE, require_superuser |-> FALSE]

\* JWTAuth._get_token_payload: the exception it raises, NoException when
\* decode_token returns the payload
TokenPayloadInvalidFirst(token) ==
    LET error == decode_token(token, now) IN
    IF error \in INVALID_TOKEN_ERROR
    THEN HTTPException(401, "Invalid token")
    ELSE IF error \in EXPIRED_SIGNATURE_ERROR
    THEN HTTPException(401, "Token has expired")
    ELSE NoException

_get_token_payload(token) ==
    LET error == decode_token(token, now) IN
    IF error \in EXPIRED_SIGNATURE_ERROR
    THEN HTTPException(401, "Token has expired")
    ELSE IF error \in INVALID_TOKEN_ERROR
    THEN HTTPException(401, "Invalid token")
    ELSE NoException

\* what a gate leaves behind: the exception it raised and request.state.user
GateResult(exception, user) == [exception |-> exception, user |-> user]

\* JWTAuth.__call__ (fastapi) / JWTAuth.authenticate (django-ninja)
JWTAuth(token) ==
    LET failure == _get_token_payload(token)
        user_id == token.payload.sub
    IN
    IF failure # NoException THEN GateResult(failure, None)
    ELSE IF user_id = NoClaim
    THEN GateResult(HTTPException(401, "Token payload missing 'sub' field"), None)
    ELSE IF ~UserExists(int(user_id))
    THEN GateResult(HTTPException(401, "User not found"), None)
    ELSE GateResult(NoException, UserById(int(user_id)))

\* JWTAuthWithPermissions.__call__ / .authenticate
PermissionsSuperuserFirst(gate, token) ==
    LET base == JWTAuth(token) IN
    IF base.exception # NoException THEN base
    ELSE IF gate.require_superuser /\ ~base.user.is_superuser
    THEN GateResult(HTTPException(403, "Superuser access required"), None)
    ELSE IF gate.require_staff /\ ~base.user.is_staff
    THEN GateResult(HTTPException(403, "Staff access required"), None)
    ELSE base

JWTAuthWithPermissions(gate, token) ==
    LET base == JWTAuth(token) IN
    IF base.exception # NoException THEN base
    ELSE IF gate.require_staff /\ ~base.user.is_staff
    THEN GateResult(HTTPException(403, "Staff access required"), None)
    ELSE IF gate.require_superuser /\ ~base.user.is_superuser
    THEN GateResult(HTTPException(403, "Superuser access required"), None)
    ELSE base

\* a gate consulting the RefreshSession table as well
AuthenticateWithSession(gate, token) ==
    LET result == IF gate.cls = "JWTAuthWithPermissions"
                  THEN JWTAuthWithPermissions(gate, token)
                  ELSE JWTAuth(token)
    IN
    IF result.exception = NoException
       /\ ~\E s \in sessions : s.user = result.user.id /\ is_active(s, now)
    THEN GateResult(HTTPException(401, "Invalid token"), None)
    ELSE result

\* the gate applied to the bearer token of a request
authenticate(gate, token) ==
    IF gate.cls = "JWTAuthWithPermissions"
    THEN JWTAuthWithPermissions(gate, token)
    ELSE JWTAuth(token)

\* ---------------------------------------------------------------- health
\* ninja.errors.HttpError(status_code, message): answered with that status
\* and {"detail": message}
HttpError(status_code, message) ==
    [kind |-> "HttpError", status_code |-> status_code, detail |-> message]

\* what Session.objects.first() can do: return, raise a database error, or
\* be interrupted by an exception that is no subclass of Exception
DatabaseProbes ==
    {"ok", "OperationalError", "ProgrammingError", "ImproperlyConfigured",
     "KeyboardInterrupt"}

\* isinstance(e, Exception)
isinstance_Exception(kind) == kind \notin {"none", "KeyboardInterrupt", "SystemExit"}

\* HealthService.check_system_health: the exception that leaves it
CheckWithoutExcept(probe) ==
    IF probe = "ok" THEN NoException ELSE Raised(probe)

check_system_health(probe) ==
    IF probe = "ok" THEN NoException
    ELSE IF isinstance_Exception(probe) THEN Raised("HealthCheckError")
    ELSE Raised(probe)

\* the HealthService the controller is built with: the class, or the
\* MagicMock(spec=HealthService) registered in the container, whose
\* check_system_health has side_effect = HealthCheckError()
HealthServices == {"HealthService", "MagicMock"}

HealthService_check(service, probe) ==
    IF service = "MagicMock" THEN Raised("HealthCheckError")
    ELSE check_system_health(probe)

\* Controller.handle_exception: raise exception
Controller_handle_exception(exception) == exception

\* HealthController.health_check inside _wrap_route: the exception that
\* leaves the route
HealthController_health_check(service, probe) ==
    LET error == HealthService_check(service, probe)
        raised == IF error.kind = "HealthCheckError"
                  THEN HttpError(503, "Service is unavailable")
                  ELSE error
    IN
    IF raised # NoException /\ isinstance_Exception(raised.kind)
    THEN Controller_handle_exception(raised)
    ELSE raised

\* ------------------------------------------------------- controllers
\* the attributes dir(controller) lists for UserTokenController, the ones
\* whose name starts with "_", and _CONTROLLER_METHODS_EXCLUDE
ControllerMethods ==
    {"register", "handle_exception", "issue_user_token",
     "refresh_user_token", "revoke_refresh_token", "__post_init__"}
PrivateNames == {"__post_init__"}
_CONTROLLER_METHODS_EXCLUDE == {"register", "handle_exception"}

\* _wrap_methods: is the attribute replaced by _wrap_route(attr)
_wrap_methods(attr_name) ==
    /\ attr_name \in ControllerMethods
    /\ attr_name \notin PrivateNames
    /\ attr_name \notin _CONTROLLER_METHODS_EXCLUDE

\* UserTokenController.handle_exception: the exception that leaves it
HandleSameMessage(exception) ==
    IF exception.kind \in {"InvalidRefreshTokenError", "ExpiredRefreshTokenError"}
    THEN HTTPException(401, "Invalid refresh token")
    ELSE IF exception.kind = "RefreshTokenError"
    THEN HTTPException(401, "Refresh token error")
    ELSE exception

UserTokenController_handle_exception(exception) ==
    IF exception.kind = "InvalidRefreshTokenError"
    THEN HTTPException(401, "Invalid refresh token")
    ELSE IF exception.kind = "ExpiredRefreshTokenError"
    THEN HTTPException(401, "Refresh token expired or revoked")
    ELSE IF exception.kind = "RefreshTokenError"
    THEN HTTPException(401, "Refresh token error")
    ELSE exception

\* _wrap_route: how often handle_exception runs for an exception raised in
\* the method, and the exception that leaves the wrapper
HandlerCalls(method) ==
    IF ~_wrap_methods(method) THEN 0
    ELSE IF _wrap_methods("handle_exception") THEN 2
    ELSE 1

_wrap_route(method, exception) ==
    IF _wrap_methods(method)
    THEN UserTokenController_handle_exception(exception)
    ELSE exception

\* the tokens of a response without tokens
NoPayload == [sub |-> NoClaim, exp |-> 0, iat |-> 0, typ |-> ""]
NoAccessToken ==
    [segments |-> 0, alg |-> "", payload |-> NoPayload,
     signature |-> Sign(NoPayload, <<"key", 0>>, "")]

\* the exchange with a client: the request (body, bearer token, the gate of
\* the route) and the response the framework sends, for an exception that
\* left the route (HTTPException: its status and detail; any other: 500) or
\* for its result
Response(endpoint, exception, calls, user, access_token, refresh_token, bearer, gate, body) ==
    [endpoint |-> endpoint,
     body |-> body,
     status |-> "",
     status_code |-> IF exception = NoException THEN 200
                     ELSE IF exception.kind \in {"HTTPException", "HttpError"}
                          THEN exception.status_code
                          ELSE 500,
     detail |-> IF exception = NoException THEN ""
                ELSE IF exception.kind \in {"HTTPException", "HttpError"}
                     THEN exception.detail
                ELSE "Internal Server Error",
     raised |-> exception.kind,
     raised_in |-> IF exception = NoException THEN "none"
                   ELSE IF calls < 0 THEN "gate" ELSE "method",
     handled |-> IF calls < 0 THEN 0 ELSE calls,
     user |-> user,
     access_token |-> access_token,
     refresh_token |-> refresh_token,
     bearer |-> bearer,
     gate |-> gate]

NoResponse ==
    Response("none", NoException, 0, 0, NoAccessToken, EmptyText, NoAccessToken, NoGate,
             <<>>)

\* a route method raised: the response after _wrap_route
MethodError(endpoint, exception, bearer, gate, body) ==
    Response(endpoint, _wrap_route(endpoint, exception), HandlerCalls(endpoint),
             0, NoAccessToken, EmptyText, bearer, gate, body)

\* the dependency of a route (the gate) raised: the method never ran
GateError(endpoint, exception, bearer, gate, body) ==
    Response(endpoint, exception, -1, 0, NoAccessToken, EmptyText, bearer, gate, body)

\* the row RefreshSession.objects.create(...) of create_refresh_session
\* inserts: last_used_at, revoked_at and rotation_counter take the defaults
\* of the model
NewSessionNoTtl(pk, user, request, refresh_token) ==
    [id |-> pk,
     refresh_token_hash |-> _hash_refresh_token(refresh_token),
     user_agent |-> _get_user_agent(request),
     ip_address |-> _get_ip_address(request),
     created_at |-> now,
     last_used_at |-> NULL,
     expires_at |-> now,
     revoked_at |-> NULL,
     rotation_counter |-> 0,
     user |-> user]

NewSession(pk, user, request, refresh_token) ==
    [id |-> pk,
     refresh_token_hash |-> _hash_refresh_token(refresh_token),
     user_agent |-> _get_user_agent(request),
     ip_address |-> _get_ip_address(request),
     created_at |-> now,
     last_used_at |-> NULL,
     expires_at |-> now + RefreshTtl,
     revoked_at |-> NULL,
     rotation_counter |-> 0,
     user |-> user]

\* ------------------------------------------------------ settings adapter
\* names are a word and its case: str.upper() keeps the word
upper(key) == <<"UPPER", key[2]>>

NoAlias == <<"none", "">>

\* a field of a settings object: its name, its alias (the alias of the Field
\* or the one the alias generator of the model yields, NoAlias when there is
\* neither) and its value
SettingsField(name, alias, value) == [name |-> name, alias |-> alias, value |-> value]

\* BaseModel.model_dump() (mode "python", by_alias left at its default): the
\* items (field name, value) in the order of the fields; a SecretStr or
\* SecretBytes value stays the wrapper object
model_dump(settings) ==
    [i \in 1..Len(settings) |-> <<settings[i].name, settings[i].value>>]

\* PydanticSettingsAdapter._resolve_key
_resolve_key(key) == upper(key)

\* SecretStr.get_secret_value() returns a str, SecretBytes.get_secret_value()
\* bytes
get_secret_value(value) ==
    IF value[1] = "SecretStr" THEN <<"str", value[2]>> ELSE <<"bytes", value[2]>>

\* PydanticSettingsAdapter._resolve_value
_resolve_value(value) ==
    IF value[1] \in {"SecretStr", "SecretBytes"}
    THEN get_secret_value(value)
    ELSE value

\* settings_locals[key] = value
SetItem(dict, key, value) == DictMerge(dict, [k \in {key} |-> value])

\* the loop of PydanticSettingsAdapter._adapt over the first n dumped items
RECURSIVE AdaptItems(_, _, _)
AdaptItems(items, n, locals) ==
    IF n = 0 THEN locals
    ELSE SetItem(AdaptItems(items, n - 1, locals),
                 _resolve_key(items[n][1]), _resolve_value(items[n][2]))

_adapt(settings, locals) ==
    AdaptItems(model_dump(settings), Len(settings), locals)

\* PydanticSettingsAdapter.adapt(*settings, settings_locals=...): the loop
\* over the first n settings objects
RECURSIVE AdaptFirst(_, _, _)
AdaptFirst(settings, n, locals) ==
    IF n = 0 THEN locals
    ELSE _adapt(settings[n], AdaptFirst(settings, n - 1, locals))

adapt(settings, locals) == AdaptFirst(settings, Len(settings), locals)

\* the namespace of a settings module before adapt is called: the names the
\* module has bound itself
ModuleLocals == [k \in {<<"UPPER", "BASE_DIR">>} |-> <<"str", 0>>]

\* ------------------------------------------------------------ container
\* the service keys resolve can be given: classes with an __init__ of their
\* own, a subclass of BaseSettings, and a key that is not a class (a generic
\* alias such as type[BaseRefreshSession], a string)
Classes == {<<"class", k>> : k \in 1..NumClasses}
SettingsClass == <<"settings", 1>>
NotAClass == <<"alias", 1>>
ServiceKeys == Classes \cup {SettingsClass, NotAClass}

\* isinstance(service_key, type), issubclass(service_key, BaseSettings)
isinstance_type(service_key) == service_key[1] \in {"class", "settings"}
issubclass_BaseSettings(service_key) == service_key[1] = "settings"

\* the annotations an __init__ can have, without "return": the parameter
\* types in the order of the parameters
AnnotationLists ==
    UNION {[1..n -> ServiceKeys] : n \in 0..MaxAnnotations}

\* every dependency graph over the classes, cycles and self-references
\* included
Graphs == [Classes -> AnnotationLists]

\* a registration as punq keeps it: what builds the instance, the scope, and
\* who registered it
Registration(service, builder, scope, by) ==
    [service |-> service, builder |-> builder, scope |-> scope, by |-> by]

\* Container.register appends to the registrations of the key; resolving
\* uses the registration added last
register(regs, service_key, registration) ==
    [regs EXCEPT ![service_key] = Append(@, registration)]

Latest(regs, service_key) == regs[service_key][Len(regs[service_key])]

\* "if registrations: return" of _register_if_missing
IgnoresRegistrations(service_key) == FALSE

HasRegistrations(service_key) == registrations[service_key] # <<>>

\* a call of _register_if_missing: its key and its position (0: entered,
\* i >= 1: in the loop, before the i-th annotation)
Frame(service_key, position) == [key |-> service_key, position |-> position]

\* the outcome of AutoRegisteringContainer.resolve
NotResolved ==
    [key |-> <<"none", 0>>, status |-> "none",
     registration |-> Registration(<<"none", 0>>, "none", "none", "none")]

Resolution(service_key, status, registration) ==
    [key |-> service_key, status |-> status, registration |-> registration]

\* what JWTService.issue_access_token was called with and what it returned
Issue(user_id, payload_kwargs, token) ==
    [user_id |-> user_id, payload_kwargs |-> payload_kwargs, token |-> token]

NoIssue == Issue(0, NoKwargs, NoAccessToken)

\* ----------------------------------------------------------------- Init
\* the state after start-up, but for the classes the container is asked for
InitState ==
    /\ sessions = {}
    /\ nextId = 1
    /\ now = 0
    /\ issued = {}
    /\ issuedTo = {}
    /\ draws = 0
    /\ pc = [w \in Workers |-> "idle"]
    /\ snap = [w \in Workers |-> NoSession]
    /\ arg = [w \in Workers |-> EmptyText]
    /\ last = NoResult
    /\ rotatedOk = [t \in Tokens |-> 0]
    /\ revoked = {}
    /\ okRotations = [i \in 1..MaxSessions |-> 0]
    /\ current = [i \in 1..MaxSessions |-> EmptyText]
    /\ users = {UserRow(u, FALSE, FALSE) : u \in Users}
    /\ resp = NoResponse
    /\ access = NoIssue
    /\ settings_locals = ModuleLocals
    /\ registrations = [k \in ServiceKeys |-> <<>>]
    /\ stack = <<>>
    /\ resolution = NotResolved
    /\ registerCalls = [k \in ServiceKeys |-> 0]

\* classes whose __init__ takes no annotated parameter
Init == InitState /\ annotations = [c \in Classes |-> <<>>]

\* classes with any constructor annotations
InitContainer == InitState /\ annotations \in Graphs

\* -------------------------------------------------------------- actions
\* create_refresh_session(request, user): one INSERT; the unique index on
\* refresh_token_hash rejects a digest that a row already holds
CreateSingleSession(w, user, request, refresh_token) ==
    /\ pc[w] = "idle"
    /\ nextId <= MaxSessions
    /\ draws < MaxTokens
    /\ draws' = draws + 1
    /\ IF UniqueViolation(_hash_refresh_token(refresh_token), 0)
       THEN /\ last' =
                    Outcome("create", "IntegrityError", EmptyText, EmptyText, 0)
            /\ UNCHANGED <<sessions, nextId, issued, issuedTo, current>>
       ELSE /\ sessions' =
                    {IF s.user = user /\ s.revoked_at = NULL
                     THEN [s EXCEPT !.revoked_at = now] ELSE s : s \in sessions}
                    \cup {NewSession(nextId, user, request, refresh_token)}
            /\ nextId' = nextId + 1
            /\ issued' = issued \cup {refresh_token}
            /\ issuedTo' = issuedTo \cup {<<refresh_token, user>>}
            /\ current' = [current EXCEPT ![nextId] = refresh_token]
            /\ last' =
                    Outcome("create", "ok", EmptyText, refresh_token, nextId)
    /\ UNCHANGED <<now, pc, snap, arg, rotatedOk, revoked, okRotations>>

create_refresh_session(w, user, request, refresh_token) ==
    /\ pc[w] = "idle"
    /\ nextId <= MaxSessions
    /\ draws < MaxTokens
    /\ draws' = draws + 1
    /\ IF UniqueViolation(_hash_refresh_token(refresh_token), 0)
       THEN /\ last' =
                    Outcome("create", "IntegrityError", EmptyText, EmptyText, 0)
            /\ UNCHANGED <<sessions, nextId, issued, issuedTo, current>>
       ELSE /\ sessions' = sessions \cup
                    {NewSession(nextId, user, request, refresh_token)}
            /\ nextId' = nextId + 1
            /\ issued' = issued \cup {refresh_token}
            /\ issuedTo' = issuedTo \cup {<<refresh_token, user>>}
            /\ current' = [current EXCEPT ![nextId] = refresh_token]
            /\ last' =
                    Outcome("create", "ok", EmptyText, refresh_token, nextId)
    /\ UNCHANGED <<now, pc, snap, arg, rotatedOk, revoked, okRotations>>

\* rotate_refresh_token, first statement: session = _get_refresh_session(t)
RotateBegin(w, refresh_token) ==
    /\ pc[w] = "idle"
    /\ LET status == _get_refresh_session(refresh_token) IN
       IF status = "ok"
       THEN /\ pc' = [pc EXCEPT ![w] = "rotate"]
            /\ snap' = [snap EXCEPT ![w] = FoundSession(refresh_token)]
            /\ arg' = [arg EXCEPT ![w] = refresh_token]
            /\ UNCHANGED last
       ELSE /\ last' =
                    Outcome("rotate", status, refresh_token, EmptyText, MatchedId(refresh_token))
            /\ UNCHANGED <<pc, snap, arg>>
    /\ UNCHANGED <<sessions, nextId, now, issued, issuedTo, draws, rotatedOk, revoked, okRotations, current>>

\* the row as session.save(update_fields=[...]) of rotate writes it: the
\* three named columns come from the in-memory object, the others stay
RotateSaveAllFields(row, session, new_hash) ==
    [session EXCEPT !.refresh_token_hash = new_hash,
                    !.rotation_counter = session.rotation_counter + 1,
                    !.last_used_at = now]

RotateSaveKeepHash(row, session, new_hash) ==
    [row EXCEPT !.rotation_counter = session.rotation_counter + 1,
                !.last_used_at = now]

RotateSaveExtendsExpiry(row, session, new_hash) ==
    [row EXCEPT !.refresh_token_hash = new_hash,
                !.rotation_counter = session.rotation_counter + 1,
                !.last_used_at = now,
                !.expires_at = now + RefreshTtl]

RotateSave(row, session, new_hash) ==
    [row EXCEPT !.refresh_token_hash = new_hash,
                !.rotation_counter = session.rotation_counter + 1,
                !.last_used_at = now]

\* rotate_refresh_token, the rest: new token, UPDATE ... WHERE id = pk, commit
RotateCommit(w, new_refresh_token) ==
    /\ pc[w] = "rotate"
    /\ draws < MaxTokens
    /\ draws' = draws + 1
    /\ LET session == snap[w]
           new_hash == _hash_refresh_token(new_refresh_token)
       IN
       IF ~RowExists(session.id)
       THEN /\ last' =
                    Outcome("rotate", "DatabaseError", arg[w], EmptyText, session.id)
            /\ UNCHANGED <<sessions, issued, issuedTo, rotatedOk, okRotations, current>>
       ELSE IF UniqueViolation(new_hash, session.id)
       THEN /\ last' =
                    Outcome("rotate", "IntegrityError", arg[w], EmptyText, session.id)
            /\ UNCHANGED <<sessions, issued, issuedTo, rotatedOk, okRotations, current>>
       ELSE /\ sessions' = {IF s.id = session.id THEN RotateSave(s, session, new_hash) ELSE s
                            : s \in sessions}
            /\ issued' = issued \cup {new_refresh_token}
            /\ issuedTo' = issuedTo \cup {<<new_refresh_token, session.user>>}
            /\ current' = [current EXCEPT ![session.id] = new_refresh_token]
            /\ rotatedOk' = [rotatedOk EXCEPT ![arg[w]] = @ + 1]
            /\ okRotations' = [okRotations EXCEPT ![session.id] = @ + 1]
            /\ last' =
                    Outcome("rotate", "ok", arg[w], new_refresh_token, session.id)
    /\ pc' = [pc EXCEPT ![w] = "idle"]
    /\ snap' = [snap EXCEPT ![w] = NoSession]
    /\ arg' = [arg EXCEPT ![w] = EmptyText]
    /\ UNCHANGED <<nextId, now, revoked>>

\* the ownership test of revoke_refresh_token
OwnerCheckSkipped(session, user) == TRUE

OwnerCheck(session, user) == session.user = user

\* revoke_refresh_token, up to the ownership test
RevokeBeginWritesBeforeOwnerCheck(w, refresh_token, user) ==
    /\ pc[w] = "idle"
    /\ LET status == _get_refresh_session(refresh_token) IN
       IF status # "ok"
       THEN /\ last' =
                    Outcome("revoke", status, refresh_token, EmptyText, MatchedId(refresh_token))
            /\ UNCHANGED <<pc, snap, arg, sessions>>
       ELSE IF ~OwnerCheck(FoundSession(refresh_token), user)
       THEN /\ last' =
                    Outcome("revoke", "InvalidRefreshTokenError", refresh_token, EmptyText,
                            MatchedId(refresh_token))
            /\ sessions' = {IF s.id = MatchedId(refresh_token)
                            THEN [s EXCEPT !.revoked_at = now] ELSE s : s \in sessions}
            /\ UNCHANGED <<pc, snap, arg>>
       ELSE /\ pc' = [pc EXCEPT ![w] = "revoke"]
            /\ snap' = [snap EXCEPT ![w] = FoundSession(refresh_token)]
            /\ arg' = [arg EXCEPT ![w] = refresh_token]
            /\ UNCHANGED <<last, sessions>>
    /\ UNCHANGED <<nextId, now, issued, issuedTo, draws, rotatedOk, revoked, okRotations, current>>

RevokeBegin(w, refresh_token, user) ==
    /\ pc[w] = "idle"
    /\ LET status == _get_refresh_session(refresh_token) IN
       IF status # "ok"
       THEN /\ last' =
                    Outcome("revoke", status, refresh_token, EmptyText, MatchedId(refresh_token))
            /\ UNCHANGED <<pc, snap, arg>>
       ELSE IF ~OwnerCheck(FoundSession(refresh_token), user)
       THEN /\ last' =
                    Outcome("revoke", "InvalidRefreshTokenError", refresh_token, EmptyText,
                            MatchedId(refresh_token))
            /\ UNCHANGED <<pc, snap, arg>>
       ELSE /\ pc' = [pc EXCEPT ![w] = "revoke"]
            /\ snap' = [snap EXCEPT ![w] = FoundSession(refresh_token)]
            /\ arg' = [arg EXCEPT ![w] = refresh_token]
            /\ UNCHANGED last
    /\ UNCHANGED <<sessions, nextId, now, issued, issuedTo, draws, rotatedOk, revoked, okRotations, current>>

\* session.save(update_fields=["revoked_at"])
RevokeSaveAllFields(row, session) == [session EXCEPT !.revoked_at = now]

RevokeSave(row, session) == [row EXCEPT !.revoked_at = now]

\* revoke_refresh_token, the rest: UPDATE revoked_at WHERE id = pk, commit
RevokeCommit(w) ==
    /\ pc[w] = "revoke"
    /\ LET session == snap[w] IN
       IF ~RowExists(session.id)
       THEN /\ last' =
                    Outcome("revoke", "DatabaseError", arg[w], EmptyText, session.id)
            /\ UNCHANGED <<sessions, revoked>>
       ELSE /\ sessions' = {IF s.id = session.id THEN RevokeSave(s, session) ELSE s
                            : s \in sessions}
            /\ revoked' = revoked \cup {arg[w]}
            /\ last' =
                    Outcome("revoke", "ok", arg[w], EmptyText, session.id)
    /\ pc' = [pc EXCEPT ![w] = "idle"]
    /\ snap' = [snap EXCEPT ![w] = NoSession]
    /\ arg' = [arg EXCEPT ![w] = EmptyText]
    /\ UNCHANGED <<nextId, now, issued, issuedTo, draws, rotatedOk, okRotations, current>>

\* timezone.now() advances
Tick ==
    /\ now < MaxTime
    /\ now' = now + 1
    /\ UNCHANGED <<sessions, nextId, issued, issuedTo, draws, pc, snap, arg, last,
                   rotatedOk, revoked, okRotations, current>>

\* the random source never repeats a token (256 bits of entropy)
FreshTokens == {<<"tok", draws + 1>>} \cap Tokens

Next ==
    \/ \E w \in Workers, u \in Users, r \in Requests, t \in FreshTokens :
          create_refresh_session(w, u, r, t) /\ UNCHANGED <<hvars, avars>>
    \/ \E w \in Workers, t \in Tokens : RotateBegin(w, t) /\ UNCHANGED <<hvars, avars>>
    \/ \E w \in Workers, t \in FreshTokens : RotateCommit(w, t) /\ UNCHANGED <<hvars, avars>>
    \/ \E w \in Workers, t \in Tokens, u \in Users :
          RevokeBegin(w, t, u) /\ UNCHANGED <<hvars, avars>>
    \/ \E w \in Workers : RevokeCommit(w) /\ UNCHANGED <<hvars, avars>>
    \/ Tick /\ UNCHANGED <<hvars, avars>>

Spec == Init /\ [][Next]_vars

\* sequential executions: a call starts only when no other call is open
NoOpenCall == \A v \in Workers : pc[v] = "idle"

NextSequential ==
    \/ \E w \in Workers, u \in Users, r \in Requests, t \in FreshTokens :
          NoOpenCall /\ create_refresh_session(w, u, r, t) /\ UNCHANGED <<hvars, avars>>
    \/ \E w \in Workers, t \in Tokens :
          NoOpenCall /\ RotateBegin(w, t) /\ UNCHANGED <<hvars, avars>>
    \/ \E w \in Workers, t \in FreshTokens : RotateCommit(w, t) /\ UNCHANGED <<hvars, avars>>
    \/ \E w \in Workers, t \in Tokens, u \in Users :
          NoOpenCall /\ RevokeBegin(w, t, u) /\ UNCHANGED <<hvars, avars>>
    \/ \E w \in Workers : RevokeCommit(w) /\ UNCHANGED <<hvars, avars>>
    \/ Tick /\ UNCHANGED <<hvars, avars>>

SpecSequential == Init /\ [][NextSequential]_vars

\* the random source may repeat a token it has yielded before: the
\* uniqueness constraint decides
AnyTokens == (issued \cup FreshTokens) \cap Tokens

NextCollide ==
    \/ \E w \in Workers, u \in Users, r \in Requests, t \in AnyTokens :
          create_refresh_session(w, u, r, t) /\ UNCHANGED <<hvars, avars>>
    \/ \E w \in Workers, t \in Tokens : RotateBegin(w, t) /\ UNCHANGED <<hvars, avars>>
    \/ \E w \in Workers, t \in AnyTokens : RotateCommit(w, t) /\ UNCHANGED <<hvars, avars>>
    \/ \E w \in Workers, t \in Tokens, u \in Users :
          RevokeBegin(w, t, u) /\ UNCHANGED <<hvars, avars>>
    \/ \E w \in Workers : RevokeCommit(w) /\ UNCHANGED <<hvars, avars>>
    \/ Tick /\ UNCHANGED <<hvars, avars>>

SpecCollide == Init /\ [][NextCollide]_vars

\* ------------------------------------------------------ the HTTP layer
\* the credentials a client can present: one username that no user has
Usernames == {<<"name", k>> : k \in 1..NumUsers + 1}
Passwords == {<<"pw", k>> : k \in Users}

\* POST /v1/users/me/token
issue_user_token(w, username, password, request, refresh_token) ==
    LET user == get_user_by_username_and_password(username, password)
        body == <<username, password>>
    IN
    /\ pc[w] = "idle"
    /\ IF user = None
       THEN /\ resp' = MethodError("issue_user_token",
                           HTTPException(401, "Invalid username or password"),
                           NoAccessToken, NoGate, body)
            /\ UNCHANGED svars
       ELSE /\ create_refresh_session(w, user.id, request, refresh_token)
            /\ resp' = IF last'.status = "ok"
                       THEN Response("issue_user_token", NoException, 0, user.id,
                                     issue_access_token(user.id, now), refresh_token,
                                     NoAccessToken, NoGate, body)
                       ELSE MethodError("issue_user_token", Raised(last'.status),
                                        NoAccessToken, NoGate, body)
    /\ UNCHANGED <<users, avars>>

\* POST /v1/users/me/token/refresh, up to the SELECT of rotate_refresh_token
RefreshUserTokenBegin(w, refresh_token) ==
    /\ RotateBegin(w, refresh_token)
    /\ resp' = IF pc'[w] = "rotate"
               THEN resp
               ELSE MethodError("refresh_user_token", Raised(last'.status),
                                NoAccessToken, NoGate, <<refresh_token>>)
    /\ UNCHANGED <<users, avars>>

\* the user an access token of refresh_user_token is issued for
RefreshSubjectFirstUser(session) == (CHOOSE u \in users : TRUE).id

RefreshSubject(session) == session.user

\* POST /v1/users/me/token/refresh, the rest: the UPDATE, then
\* issue_access_token(user_id=rotated_session.session.user.pk)
RefreshUserTokenCommit(w, new_refresh_token) ==
    /\ RotateCommit(w, new_refresh_token)
    /\ resp' = IF last'.status = "ok"
               THEN Response("refresh_user_token", NoException, 0,
                             RefreshSubject(snap[w]),
                             issue_access_token(RefreshSubject(snap[w]), now),
                             new_refresh_token, NoAccessToken, NoGate, <<arg[w]>>)
               ELSE MethodError("refresh_user_token", Raised(last'.status),
                                NoAccessToken, NoGate, <<arg[w]>>)
    /\ UNCHANGED <<users, avars>>

\* POST /v1/users/me/token/revoke: the gate, then revoke_refresh_token up to
\* its ownership test
RevokeRefreshTokenBegin(w, bearer, refresh_token) ==
    LET gate == JWTAuthFactory(FALSE, FALSE)
        auth == authenticate(gate, bearer)
    IN
    /\ pc[w] = "idle"
    /\ IF auth.exception # NoException
       THEN /\ resp' = GateError("revoke_refresh_token", auth.exception,
                                 bearer, gate, <<refresh_token>>)
            /\ UNCHANGED svars
       ELSE /\ RevokeBegin(w, refresh_token, auth.user.id)
            /\ resp' = IF pc'[w] = "revoke"
                       THEN resp
                       ELSE MethodError("revoke_refresh_token", Raised(last'.status),
                                        bearer, gate, <<refresh_token>>)
    /\ UNCHANGED <<users, avars>>

\* POST /v1/users/me/token/revoke, the rest
RevokeRefreshTokenCommit(w) ==
    /\ RevokeCommit(w)
    /\ resp' = IF last'.status = "ok"
               THEN Response("revoke_refresh_token", NoException, 0, snap[w].user,
                             NoAccessToken, EmptyText, NoAccessToken,
                             JWTAuthFactory(FALSE, FALSE), <<arg[w]>>)
               ELSE MethodError("revoke_refresh_token", Raised(last'.status),
                                NoAccessToken, JWTAuthFactory(FALSE, FALSE), <<arg[w]>>)
    /\ UNCHANGED <<users, avars>>

\* a route behind a gate (GET /v1/users/me behind the plain gate,
\* GET /v1/users/{user_id} behind the staff gate): the gate decides
AuthenticatedRequest(bearer, require_staff, require_superuser) ==
    LET gate == JWTAuthFactory(require_staff, require_superuser)
        auth == authenticate(gate, bearer)
    IN
    /\ resp' = IF auth.exception # NoException
               THEN GateError("get_current_user", auth.exception, bearer, gate, <<>>)
               ELSE Response("get_current_user", NoException, 0, auth.user.id,
                             NoAccessToken, EmptyText, bearer, gate, <<>>)
    /\ UNCHANGED <<svars, users, avars>>

\* on_delete=models.CASCADE of RefreshSession.user: the rows left when user
\* u is deleted
CascadeNothing(rows, u) == rows

Cascade(rows, u) == {s \in rows : s.user # u}

\* user.delete(): the row of the user goes, and with it the rows that
\* reference it
DeleteUser(u) ==
    /\ UserExists(u)
    /\ users' = users \ {UserById(u)}
    /\ sessions' = Cascade(sessions, u)
    /\ UNCHANGED <<nextId, now, issued, issuedTo, draws, pc, snap, arg, last,
                   rotatedOk, revoked, okRotations, current, resp, avars>>

\* is_staff / is_superuser of a user are edited (admin site, createsuperuser)
SetFlags(u, staff, superuser) ==
    /\ UserExists(u)
    /\ users' = (users \ {UserById(u)}) \cup {UserRow(u, staff, superuser)}
    /\ UNCHANGED <<svars, resp, avars>>

\* the access tokens JWTService has signed up to now
IssuedAccessTokens ==
    {issue_access_token(u, i) : u \in Users, i \in 0..now}

\* the bearer tokens a client can present to a gate: tokens signed with the
\* secret (for a user, for an id no user has, without a sub claim), tokens
\* signed with another key, tokens whose payload was altered after signing,
\* a token naming another algorithm and a string that is not a token
Subjects == {str(u) : u \in 1..NumUsers + 1} \cup {NoClaim}
Payloads(to) ==
    {[sub |-> sub, exp |-> i + AccessTtl, iat |-> i, typ |-> "at+jwt"] :
        sub \in Subjects, i \in 0..to}
BearerTokens ==
    {jwt_encode(p, Secret, Algorithm) : p \in Payloads(now)}
    \cup {jwt_encode(p, <<"key", 2>>, Algorithm) : p \in Payloads(0)}
    \cup {[jwt_encode(p, Secret, Algorithm) EXCEPT !.payload.exp = MaxTime + 2] :
            p \in Payloads(0)}
    \cup {jwt_encode(p, Secret, "none") : p \in Payloads(0)}
    \cup {[jwt_encode(p, Secret, Algorithm) EXCEPT !.segments = 2] :
            p \in Payloads(0)}

\* the gate alone: any bearer token against any user table
NextGate ==
    \/ \E t \in BearerTokens, require_staff \in BOOLEAN, require_superuser \in BOOLEAN :
          AuthenticatedRequest(t, require_staff, require_superuser)
    \/ \E u \in Users, staff \in BOOLEAN, superuser \in BOOLEAN :
          SetFlags(u, staff, superuser)
    \/ \E u \in Users : DeleteUser(u)
    \/ Tick /\ UNCHANGED <<hvars, avars>>

SpecGate == Init /\ [][NextGate]_vars

\* requests served one at a time all run in one worker
OneWorker == {CHOOSE w \in Workers : TRUE}

\* the endpoints of UserTokenController and a route behind the plain gate,
\* one request at a time; the bearer tokens presented are tokens the service
\* has signed
NextHttp ==
    \/ \E w \in OneWorker, n \in Usernames, p \in Passwords, r \in Requests,
          t \in FreshTokens : NoOpenCall /\ issue_user_token(w, n, p, r, t)
    \/ \E w \in OneWorker, t \in Tokens : NoOpenCall /\ RefreshUserTokenBegin(w, t)
    \/ \E w \in OneWorker, t \in FreshTokens : RefreshUserTokenCommit(w, t)
    \/ \E w \in OneWorker, b \in IssuedAccessTokens, t \in Tokens :
          NoOpenCall /\ RevokeRefreshTokenBegin(w, b, t)
    \/ \E w \in OneWorker : RevokeRefreshTokenCommit(w)
    \/ \E b \in IssuedAccessTokens :
          NoOpenCall /\ AuthenticatedRequest(b, FALSE, FALSE)
    \/ Tick /\ UNCHANGED <<hvars, avars>>

SpecHttp == Init /\ [][NextHttp]_vars

\* the life of an account: logins and rotations by the refresh-session
\* service, one at a time, requests to a route behind the plain gate with an
\* access token the service has signed, and the deletion of users (also
\* while a rotation is open)
NextAccounts ==
    \/ \E w \in OneWorker, n \in Usernames, p \in Passwords, r \in Requests,
          t \in FreshTokens : NoOpenCall /\ issue_user_token(w, n, p, r, t)
    \/ \E w \in OneWorker, t \in Tokens :
          NoOpenCall /\ RotateBegin(w, t) /\ UNCHANGED <<hvars, avars>>
    \/ \E w \in OneWorker, t \in FreshTokens : RotateCommit(w, t) /\ UNCHANGED <<hvars, avars>>
    \/ \E b \in IssuedAccessTokens :
          NoOpenCall /\ AuthenticatedRequest(b, FALSE, FALSE)
    \/ \E u \in Users : DeleteUser(u)
    \/ Tick /\ UNCHANGED <<hvars, avars>>

SpecAccounts == Init /\ [][NextAccounts]_vars

\* ------------------------------------------------------ the token codec
\* the keyword arguments a caller of issue_access_token can add: any subset
\* of these claims
ExtraClaims ==
    [sub |-> str(NumUsers + 1), exp |-> MaxTime + AccessTtl + 1, iat |-> 0,
     role |-> <<"str", 0>>]

PayloadKwargs == {[k \in S |-> ExtraClaims[k]] : S \in SUBSET DOMAIN ExtraClaims}

\* jwt_service.issue_access_token(user_id=..., **payload_kwargs)
IssueAccessToken(user_id, payload_kwargs) ==
    /\ access' = Issue(user_id, payload_kwargs,
                       jwt_encode(access_token_payload(user_id, now, payload_kwargs),
                                  Secret, Algorithm))
    /\ UNCHANGED <<svars, hvars, settings_locals, annotations, registrations, stack,
                   resolution, registerCalls>>

NextCodec ==
    \/ \E u \in Users, kw \in PayloadKwargs : IssueAccessToken(u, kw)
    \/ Tick /\ UNCHANGED <<hvars, avars>>

SpecCodec == Init /\ [][NextCodec]_vars

\* ------------------------------------------------- the settings modules
\* the settings objects of the adapter's test (a plain field, a model with
\* an alias generator, a SecretStr field with an alias) and DjangoAuthSettings
\* (password_validators has the alias auth_password_validators)
Settings1(v) ==
    <<SettingsField(<<"lower", "value1">>, NoAlias, <<"str", v>>)>>
Settings2(v) ==
    <<SettingsField(<<"lower", "value2">>, <<"lower", "settings2_value2">>,
                    <<"int", v>>)>>
Settings3(v) ==
    <<SettingsField(<<"lower", "secret_value">>,
                    <<"lower", "settings3_secret_value">>, <<"SecretStr", v>>)>>
DjangoAuthSettings(v) ==
    <<SettingsField(<<"lower", "auth_user_model">>, NoAlias, <<"str", v>>),
      SettingsField(<<"lower", "password_validators">>,
                    <<"lower", "auth_password_validators">>, <<"tuple", v>>)>>

SettingsObjects ==
    UNION {{Settings1(v), Settings2(v), Settings3(v), DjangoAuthSettings(v)} :
              v \in 1..NumValues}

\* the positional arguments of a call of adapt
MaxSettings == 2
SettingsArgs == UNION {[1..n -> SettingsObjects] : n \in 1..MaxSettings}

\* adapter.adapt(*settings, settings_locals=locals())
Adapt(settings) ==
    /\ settings_locals' = adapt(settings, settings_locals)
    /\ UNCHANGED <<svars, hvars, access, annotations, registrations, stack,
                   resolution, registerCalls>>

NextSettings == \E settings \in SettingsArgs : Adapt(settings)

SpecSettings == Init /\ [][NextSettings]_vars

\* -------------------------------------------------- the health endpoint
\* GET /v1/health (auth=None): the controller asks the HealthService it was
\* built with; the schema of the result has the one member status
health_check(service, probe) ==
    LET exception == HealthController_health_check(service, probe)
        calls == IF exception # NoException /\ isinstance_Exception(exception.kind)
                 THEN 1 ELSE 0
    IN
    /\ resp' = [Response("health_check", exception, calls, 0, NoAccessToken,
                         EmptyText, NoAccessToken, NoGate, <<>>)
                  EXCEPT !.status = IF exception = NoException THEN "ok" ELSE ""]
    /\ UNCHANGED <<svars, users, avars>>

\* the health endpoint next to the routes behind a gate, over any user table
NextHealth ==
    \/ \E service \in HealthServices, probe \in DatabaseProbes :
          health_check(service, probe)
    \/ \E t \in BearerTokens, require_staff \in BOOLEAN, require_superuser \in BOOLEAN :
          AuthenticatedRequest(t, require_staff, require_superuser)
    \/ \E u \in Users, staff \in BOOLEAN, superuser \in BOOLEAN :
          SetFlags(u, staff, superuser)
    \/ \E u \in Users : DeleteUser(u)
    \/ Tick /\ UNCHANGED <<hvars, avars>>

SpecHealth == Init /\ [][NextHealth]_vars

\* -------------------------------------------------------- the container
\* container.register(service_key, instance=...): an explicit registration,
\* as the tests make it for a mock, while no resolve call is open
register_instance(service_key) ==
    /\ stack = <<>>
    /\ Len(registrations[service_key]) < MaxRegistrations
    /\ registrations' =
          register(registrations, service_key,
                   Registration(service_key, "instance", "singleton", "explicit"))
    /\ UNCHANGED <<svars, hvars, access, settings_locals, annotations, stack,
                   resolution, registerCalls>>

\* AutoRegisteringContainer.resolve(service_key): the call of
\* _register_if_missing(service_key) is entered
resolve(service_key) ==
    /\ stack = <<>>
    /\ stack' = <<Frame(service_key, 0)>>
    /\ UNCHANGED <<svars, hvars, access, settings_locals, annotations, registrations,
                   resolution, registerCalls>>

\* super().resolve(service_key): punq builds from the registration added
\* last for the key
super_resolve(regs, service_key) ==
    Resolution(service_key, "ok", Latest(regs, service_key))

\* the innermost call of _register_if_missing returns: the caller goes on
\* with its loop; when it was the call made by resolve, super().resolve runs
Return(regs) ==
    IF Len(stack) = 1
    THEN /\ stack' = <<>>
         /\ resolution' = super_resolve(regs, stack[1].key)
    ELSE /\ stack' = SubSeq(stack, 1, Len(stack) - 1)
         /\ UNCHANGED resolution

\* one step of the innermost call of _register_if_missing: from its entry up
\* to the loop, or one turn of the loop (the recursive call is entered)
_register_if_missing ==
    /\ stack # <<>>
    /\ LET top == stack[Len(stack)]
           service_key == top.key
       IN
       IF top.position = 0
       THEN IF HasRegistrations(service_key)
            THEN /\ Return(registrations)
                 /\ UNCHANGED <<registrations, registerCalls>>
            ELSE IF ~isinstance_type(service_key)
            THEN /\ stack' = <<>>
                 /\ resolution' = Resolution(stack[1].key, "TypeError", NotResolved.registration)
                 /\ UNCHANGED <<registrations, registerCalls>>
            ELSE IF issubclass_BaseSettings(service_key)
            THEN /\ registrations' =
                       register(registrations, service_key,
                                Registration(service_key, "factory", "singleton", "auto"))
                 /\ registerCalls' = [registerCalls EXCEPT ![service_key] = @ + 1]
                 /\ Return(registrations')
            ELSE /\ registrations' =
                       register(registrations, service_key,
                                Registration(service_key, "class", "singleton", "auto"))
                 /\ registerCalls' = [registerCalls EXCEPT ![service_key] = @ + 1]
                 /\ stack' = [stack EXCEPT ![Len(stack)] = Frame(service_key, 1)]
                 /\ UNCHANGED resolution
       ELSE IF top.position > Len(annotations[service_key])
            THEN /\ Return(registrations)
                 /\ UNCHANGED <<registrations, registerCalls>>
            ELSE /\ stack' =
                       Append([stack EXCEPT ![Len(stack)] =
                                  Frame(service_key, top.position + 1)],
                              Frame(annotations[service_key][top.position], 0))
                 /\ UNCHANGED <<registrations, registerCalls, resolution>>
    /\ UNCHANGED <<svars, hvars, access, settings_locals, annotations>>

NextContainer ==
    \/ \E k \in ServiceKeys : register_instance(k)
    \/ \E k \in ServiceKeys : resolve(k)
    \/ _register_if_missing

SpecContainer == InitContainer /\ [][NextContainer]_vars

\* ---------------------------------------------------------------- claims
RowOf(sid) == CHOOSE s \in sessions : s.id = sid

\* C1: every raw token is rotated successfully at most once, however the
\* rotate transactions presenting it interleave (of concurrent calls with the
\* same token exactly one wins, the loser gets InvalidRefreshTokenError), and
\* after a successful rotate the row holds the digest of the token returned
C1_ExactlyOneRotationWins ==
    /\ \A t \in Tokens : rotatedOk[t] <= 1
    /\ (last.op = "rotate" /\ last.status = "ok")
          => RowOf(last.sid).refresh_token_hash = _hash_refresh_token(last.token)

\* C2: in a sequential execution a rotate presenting a token that an earlier
\* successful rotate replaced ends in InvalidRefreshTokenError, a rotate
\* presenting the token returned last for a still active session finds that
\* session, and the rotate that found its session returns success
C2_RotationInvalidatesPredecessor ==
    [][/\ \A w \in Workers, t \in Tokens :
             RotateBegin(w, t) =>
                /\ rotatedOk[t] > 0 =>
                      /\ last'.op = "rotate" /\ last'.arg = t
                      /\ last'.status = "InvalidRefreshTokenError"
                      /\ pc'[w] = "idle"
                /\ \A s \in sessions :
                      (current[s.id] = t /\ s.revoked_at = NULL /\ s.expires_at > now)
                         => (pc'[w] = "rotate" /\ snap'[w] = s)
       /\ \A w \in Workers, t \in Tokens :
             RotateCommit(w, t) =>
                (last'.status = "ok" /\ last'.token = t /\ current'[last'.sid] = t)
      ]_vars

\* C2 witness: a replayed predecessor token was rejected after its session
\* had been rotated twice
C2_Witness ==
    /\ last.op = "rotate" /\ last.status = "InvalidRefreshTokenError"
    /\ rotatedOk[last.arg] = 1
    /\ \E s \in sessions : s.rotation_counter = 2

\* C3: once revoke_refresh_token(t, user) has returned success, every rotate
\* presenting t that starts later ends in ExpiredRefreshTokenError (HTTP 401)
C3_RevokedTokenStaysExpired ==
    [][\A w \in Workers, t \in Tokens :
          (RotateBegin(w, t) /\ t \in revoked) =>
             /\ last'.op = "rotate" /\ last'.arg = t
             /\ last'.status = "ExpiredRefreshTokenError"
             /\ last'.http = 401
      ]_vars

\* C4: a row whose revoked_at is set keeps revoked_at set in every step, and
\* the write of rotate leaves every column but refresh_token_hash,
\* rotation_counter and last_used_at as the table held it
C4_RevocationIsTerminal ==
    [][/\ \A s \in sessions : \A s2 \in sessions' :
             (s2.id = s.id /\ s.revoked_at # NULL) => s2.revoked_at # NULL
       /\ \A w \in Workers, t \in Tokens :
             RotateCommit(w, t) =>
                \A s \in sessions : \E s2 \in sessions' :
                   /\ s2.id = s.id
                   /\ s2.revoked_at = s.revoked_at
                   /\ s2.expires_at = s.expires_at
                   /\ s2.created_at = s.created_at
                   /\ s2.user = s.user
                   /\ s2.user_agent = s.user_agent
                   /\ s2.ip_address = s.ip_address
      ]_vars

\* C4 witness: a rotate that had read the row before the revocation wrote
\* the row after it, and revoked_at is still set
C4_Witness ==
    \E s \in sessions :
       /\ s.revoked_at # NULL
       /\ s.last_used_at # NULL
       /\ s.last_used_at > s.revoked_at

\* C5: revoke_refresh_token(t, v) on an active session of another user ends
\* in InvalidRefreshTokenError, opens no write, leaves the table as it was,
\* and a rotate presenting t still finds the active session
C5_ForeignRevokeRejected ==
    [][\A w \in Workers, t \in Tokens, v \in Users :
          (/\ RevokeBegin(w, t, v)
           /\ \E s \in sessions :
                 /\ s.refresh_token_hash = _hash_refresh_token(t)
                 /\ s.revoked_at = NULL /\ s.expires_at > now
                 /\ s.user # v)
          => /\ last'.op = "revoke" /\ last'.arg = t
             /\ last'.status = "InvalidRefreshTokenError"
             /\ pc'[w] = "idle"
             /\ sessions' = sessions
             /\ _get_refresh_session(t)' = "ok"
      ]_vars

\* C5 witness: a revoke by a user who does not own the matched session was
\* rejected and the session is still active under the same token
C5_Witness ==
    /\ last.op = "revoke" /\ last.status = "InvalidRefreshTokenError"
    /\ last.sid # 0
    /\ \E s \in sessions :
          /\ s.id = last.sid
          /\ s.refresh_token_hash = _hash_refresh_token(last.arg)
          /\ s.revoked_at = NULL /\ s.expires_at > now

\* the columns of a row that hold text (CharField, TextField, IP address)
TextColumns(s) == {s.refresh_token_hash, s.user_agent, s.ip_address}

\* C6: no text column of any row holds a raw token of the random source
\* (in particular none that was returned to a caller); the column
\* refresh_token_hash of every row is the digest of a returned token, and the
\* token a create or rotate returns is among the returned tokens
C6_RawTokenNeverStored ==
    /\ \A s \in sessions : TextColumns(s) \cap (Tokens \cup issued) = {}
    /\ \A s \in sessions :
          \E t \in issued : s.refresh_token_hash = _hash_refresh_token(t)
    /\ (last.status = "ok" /\ last.op \in {"create", "rotate"}) => last.token \in issued

\* C6 witness: a session was created and rotated, so both writers of
\* refresh_token_hash have acted
C6_Witness ==
    \E s \in sessions :
       /\ s.rotation_counter > 0
       /\ last.op = "rotate" /\ last.status = "ok" /\ last.sid = s.id
       /\ s.refresh_token_hash = _hash_refresh_token(last.token)

\* refresh_token_hash is unique across the rows of the table
UniqueHashes ==
    \A s1, s2 \in sessions :
       s1.refresh_token_hash = s2.refresh_token_hash => s1 = s2

\* C7 as stated: refresh_token_hash is unique in every state, and a create or
\* rotate whose generated token has the digest of an existing row fails with
\* the uniqueness violation and leaves the table as it was
C7_CollisionAlwaysFails ==
    /\ []UniqueHashes
    /\ [][/\ \A w \in Workers, u \in Users, r \in Requests, t \in Tokens :
               (/\ create_refresh_session(w, u, r, t)
                /\ \E s \in sessions : s.refresh_token_hash = _hash_refresh_token(t))
               => (last'.status = "IntegrityError" /\ sessions' = sessions)
          /\ \A w \in Workers, t \in Tokens :
               (/\ RotateCommit(w, t)
                /\ \E s \in sessions : s.refresh_token_hash = _hash_refresh_token(t))
               => (last'.status = "IntegrityError" /\ sessions' = sessions)
         ]_vars

\* C7 amended: refresh_token_hash is unique in every state, and a create or
\* rotate whose generated token has the digest of a row other than the one
\* being written fails with the uniqueness violation and leaves the table as
\* it was; a rotate that regenerates the digest its own row holds succeeds
C7_CollisionWithOtherRowFails ==
    /\ []UniqueHashes
    /\ [][/\ \A w \in Workers, u \in Users, r \in Requests, t \in Tokens :
               (/\ create_refresh_session(w, u, r, t)
                /\ \E s \in sessions : s.refresh_token_hash = _hash_refresh_token(t))
               => (last'.status = "IntegrityError" /\ sessions' = sessions)
          /\ \A w \in Workers, t \in Tokens :
               RotateCommit(w, t) =>
                  IF \E s \in sessions : /\ s.refresh_token_hash = _hash_refresh_token(t)
                                         /\ s.id # snap[w].id
                  THEN last'.status = "IntegrityError" /\ sessions' = sessions
                  ELSE last'.status = "ok"
         ]_vars

\* C7 witness: two rows exist and a rotate was rejected by the unique index
C7_Witness ==
    /\ Cardinality(sessions) = 2
    /\ last.op = "rotate" /\ last.status = "IntegrityError"

\* C8: the lookup of rotate_refresh_token(t) ends in InvalidRefreshTokenError
\* when no row holds the digest of t, in ExpiredRefreshTokenError when the
\* row is revoked or its expires_at is not after the clock, and otherwise
\* the call goes on with that row and returns success
C8_RotateOutcomeClasses ==
    [][/\ \A w \in Workers, t \in Tokens :
             RotateBegin(w, t) =>
                LET match == {s \in sessions :
                                 s.refresh_token_hash = _hash_refresh_token(t)}
                    live == {s \in match : s.revoked_at = NULL /\ s.expires_at > now}
                IN
                /\ (match = {}) <=> (/\ last'.op = "rotate" /\ last'.arg = t
                                     /\ last'.status = "InvalidRefreshTokenError"
                                     /\ pc'[w] = "idle")
                /\ (match # {} /\ live = {})
                      <=> (/\ last'.op = "rotate" /\ last'.arg = t
                           /\ last'.status = "ExpiredRefreshTokenError"
                           /\ pc'[w] = "idle")
                /\ (live # {}) <=> (pc'[w] = "rotate" /\ snap'[w] \in live /\ last' = last)
       /\ \A w \in Workers, t \in Tokens :
             RotateCommit(w, t) => (last'.op = "rotate" /\ last'.status = "ok")
      ]_vars

\* C8 witness: a rotate presenting the token of a revoked, unexpired session
\* ended in ExpiredRefreshTokenError
C8_Witness ==
    /\ last.op = "rotate" /\ last.status = "ExpiredRefreshTokenError"
    /\ \E s \in sessions :
          /\ s.id = last.sid
          /\ s.revoked_at # NULL
          /\ s.expires_at > now

\* C9: a rotate treats the session its token matches as active exactly when
\* revoked_at is null and expires_at is after the clock: it is refused with
\* ExpiredRefreshTokenError at the instant now = expires_at, at every later
\* instant and whenever revoked_at is set, and finds the session otherwise
C9_ExpiryIsStrict ==
    [][\A w \in Workers, t \in Tokens :
          RotateBegin(w, t) =>
             \A s \in sessions :
                s.refresh_token_hash = _hash_refresh_token(t)
                => IF s.revoked_at = NULL /\ s.expires_at > now
                   THEN pc'[w] = "rotate" /\ snap'[w] = s
                   ELSE /\ last'.status = "ExpiredRefreshTokenError"
                        /\ last'.http = 401
                        /\ pc'[w] = "idle"
      ]_vars

\* C9 witness: a rotate was refused as expired at the instant now = expires_at
C9_Witness ==
    /\ last.op = "rotate" /\ last.status = "ExpiredRefreshTokenError"
    /\ \E s \in sessions :
          /\ s.id = last.sid
          /\ s.revoked_at = NULL
          /\ s.expires_at = now

\* C10: rotation_counter of every row equals the number of rotate calls that
\* returned success on that session, and no step decreases it
C10_CounterCountsRotations ==
    /\ [](\A s \in sessions : s.rotation_counter = okRotations[s.id])
    /\ [][\A s \in sessions : \A s2 \in sessions' :
             s2.id = s.id => s2.rotation_counter >= s.rotation_counter]_vars

\* C11: create_refresh_session(user) adds exactly one row, owned by the given
\* user, with expires_at = now + refresh_token_ttl, revoked_at and
\* last_used_at null, rotation_counter 0 and the digest of the returned token;
\* the session is active at once and a rotate presenting the returned token
\* finds it
C11_CreateAddsOneActiveRow ==
    [][\A w \in Workers, u \in Users, r \in Requests, t \in Tokens :
          create_refresh_session(w, u, r, t) =>
             /\ last'.op = "create" /\ last'.status = "ok" /\ last'.token = t
             /\ \E s \in sessions' :
                   /\ s \notin sessions
                   /\ sessions' = sessions \cup {s}
                   /\ s.id = last'.sid
                   /\ s.user = u
                   /\ s.expires_at = now + RefreshTtl
                   /\ s.revoked_at = NULL
                   /\ s.last_used_at = NULL
                   /\ s.rotation_counter = 0
                   /\ s.refresh_token_hash = _hash_refresh_token(last'.token)
                   /\ s.expires_at > now'
             /\ _get_refresh_session(t)' = "ok"
      ]_vars

\* C11 witness: a session was created for user 2 while another session
\* exists, and its row is as inserted
C11_Witness ==
    /\ last.op = "create" /\ last.status = "ok"
    /\ Cardinality(sessions) = 2
    /\ \E s \in sessions :
          /\ s.id = last.sid
          /\ s.user = 2
          /\ s.created_at = now
          /\ s.rotation_counter = 0
          /\ s.refresh_token_hash = _hash_refresh_token(last.token)

\* C12: the access token of a successful refresh names, as sub, the owner of
\* the session row that the digest of the presented token matches, and no
\* other user; a refresh that fails returns no access token
C12_RefreshSubjectIsOwner ==
    [][(resp' # resp /\ resp'.endpoint = "refresh_user_token") =>
       /\ \A w \in Workers, t \in Tokens :
             RefreshUserTokenCommit(w, t) =>
                IF resp'.status_code = 200
                THEN /\ resp'.endpoint = "refresh_user_token"
                     /\ resp'.refresh_token = t
                     /\ decode_token(resp'.access_token, now') = "ok"
                     /\ \E s \in sessions :
                           /\ s.refresh_token_hash = _hash_refresh_token(arg[w])
                           /\ resp'.access_token.payload.sub = str(s.user)
                           /\ \A u \in Users \ {s.user} :
                                 resp'.access_token.payload.sub # str(u)
                ELSE resp'.access_token = NoAccessToken
       /\ \A w \in Workers, t \in Tokens :
             (RefreshUserTokenBegin(w, t) /\ pc'[w] = "idle")
                => resp'.status_code = 401 /\ resp'.access_token = NoAccessToken
      ]_vars

\* C12 witness: both users hold a session and the refresh of the second
\* user's session returned an access token for the second user
C12_Witness ==
    /\ resp.endpoint = "refresh_user_token" /\ resp.status_code = 200
    /\ resp.access_token.payload.sub = str(2)
    /\ \E s1 \in sessions, s2 \in sessions :
          /\ s1.user = 1 /\ s2.user = 2
          /\ s1.id < s2.id
          /\ s2.refresh_token_hash = _hash_refresh_token(resp.refresh_token)

\* what a claim about the gate says of a bearer token: it is a well-formed
\* token signed with the secret under the configured algorithm
WellSigned(token) ==
    /\ token.segments = 3
    /\ token.alg = Algorithm
    /\ token.signature = Sign(token.payload, Secret, Algorithm)

\* C13: the gate lets a request through as a user only if the token decodes,
\* carries a sub claim and a user with that id exists; otherwise the response
\* is 401 with the message of the first failing step: expired, any other
\* decode failure, missing sub, no such user
C13_GateFirstFailingStep ==
    [][(resp' # resp /\ resp'.endpoint = "get_current_user") =>
          LET token == resp'.bearer IN
          IF WellSigned(token) /\ token.payload.exp <= now
          THEN resp'.status_code = 401 /\ resp'.detail = "Token has expired"
          ELSE IF ~WellSigned(token)
          THEN resp'.status_code = 401 /\ resp'.detail = "Invalid token"
          ELSE IF token.payload.sub = NoClaim
          THEN /\ resp'.status_code = 401
               /\ resp'.detail = "Token payload missing 'sub' field"
          ELSE IF ~\E u \in users : str(u.id) = token.payload.sub
          THEN resp'.status_code = 401 /\ resp'.detail = "User not found"
          ELSE /\ resp'.status_code \in {200, 403}
               /\ resp'.gate.cls = "JWTAuth" => resp'.status_code = 200
               /\ resp'.status_code = 200 => str(resp'.user) = token.payload.sub
      ]_vars

\* C13 witness: a token signed for user 1 and not yet expired was presented
\* after user 1 was deleted, and the answer was 401 "User not found"
C13_Witness ==
    /\ resp.endpoint = "get_current_user"
    /\ resp.status_code = 401 /\ resp.detail = "User not found"
    /\ WellSigned(resp.bearer)
    /\ resp.bearer.payload.sub = str(1)
    /\ resp.bearer.payload.exp > now
    /\ ~UserExists(1) /\ UserExists(2)

\* C14: a gate built with require_staff and/or require_superuser answers 403
\* exactly when the identity was resolved and the user lacks a required flag,
\* the staff flag being tested first; every authentication failure is a 401,
\* and a gate built with neither predicate never answers 403
C14_ForbiddenOnlyAfterIdentity ==
    [][(resp' # resp /\ resp'.endpoint = "get_current_user") =>
          \A require_staff \in BOOLEAN, require_superuser \in BOOLEAN :
             AuthenticatedRequest(resp'.bearer, require_staff, require_superuser) =>
                LET token == resp'.bearer
                    resolved == /\ WellSigned(token)
                                /\ token.payload.exp > now
                                /\ token.payload.sub # NoClaim
                                /\ \E u \in users : str(u.id) = token.payload.sub
                    user == CHOOSE u \in users : str(u.id) = token.payload.sub
                IN
                /\ (~require_staff /\ ~require_superuser) => resp'.status_code # 403
                /\ IF ~resolved
                   THEN resp'.status_code = 401
                   ELSE IF require_staff /\ ~user.is_staff
                   THEN /\ resp'.status_code = 403
                        /\ resp'.detail = "Staff access required"
                   ELSE IF require_superuser /\ ~user.is_superuser
                   THEN /\ resp'.status_code = 403
                        /\ resp'.detail = "Superuser access required"
                   ELSE resp'.status_code = 200 /\ resp'.user = user.id
      ]_vars

\* C14 witness: a gate requiring both flags refused a resolved user that has
\* neither, with the message of the staff check
C14_Witness ==
    /\ resp.endpoint = "get_current_user"
    /\ resp.status_code = 403 /\ resp.detail = "Staff access required"
    /\ resp.gate.require_staff /\ resp.gate.require_superuser
    /\ WellSigned(resp.bearer) /\ resp.bearer.payload.exp > now
    /\ \E u \in users :
          /\ str(u.id) = resp.bearer.payload.sub
          /\ ~u.is_staff /\ ~u.is_superuser

\* the message the claim gives for each kind of RefreshTokenError
RefreshErrorMessage(kind) ==
    IF kind = "InvalidRefreshTokenError" THEN "Invalid refresh token"
    ELSE "Refresh token expired or revoked"

\* C15: a RefreshTokenError that the service raises inside refresh_user_token
\* or revoke_refresh_token passes through handle_exception exactly once and
\* is answered 401 with the message of its kind, the same status for both
\* kinds; an exception of another class (the HTTPException of a failed login)
\* passes through handle_exception once and leaves it unchanged
C15_RefreshErrorsBecome401 ==
    [][/\ (last' # last /\ last'.op \in {"rotate", "revoke"}
                        /\ last'.status \in {"InvalidRefreshTokenError",
                                             "ExpiredRefreshTokenError"})
          => /\ resp'.raised_in = "method"
             /\ resp'.endpoint = IF last'.op = "rotate"
                                 THEN "refresh_user_token"
                                 ELSE "revoke_refresh_token"
             /\ resp'.status_code = 401
       /\ (resp' # resp /\ resp'.raised_in = "method") =>
          /\ resp'.handled = 1
          /\ resp'.endpoint \in {"refresh_user_token", "revoke_refresh_token"} =>
                /\ last'.status \in {"InvalidRefreshTokenError",
                                     "ExpiredRefreshTokenError"}
                /\ last'.arg = resp'.body[1]
                /\ resp'.status_code = 401
                /\ resp'.detail = RefreshErrorMessage(last'.status)
                /\ resp'.raised = "HTTPException"
          /\ resp'.endpoint = "issue_user_token" =>
                /\ resp'.raised = "HTTPException"
                /\ resp'.status_code = 401
                /\ resp'.detail = "Invalid username or password"
                /\ UNCHANGED last
      ]_vars

\* C15 witness: the revoke endpoint answered 401 "Refresh token expired or
\* revoked" for an ExpiredRefreshTokenError of the service, handled once
C15_Witness ==
    /\ resp.endpoint = "revoke_refresh_token"
    /\ resp.raised_in = "method" /\ resp.handled = 1
    /\ resp.status_code = 401
    /\ resp.detail = "Refresh token expired or revoked"
    /\ last.op = "revoke" /\ last.status = "ExpiredRefreshTokenError"
    /\ last.arg = resp.body[1]

\* the one response of the token-issue endpoint to rejected credentials
InvalidCredentials ==
    [NoResponse EXCEPT !.endpoint = "issue_user_token",
                       !.status_code = 401,
                       !.detail = "Invalid username or password",
                       !.raised = "HTTPException",
                       !.raised_in = "method",
                       !.handled = 1]

\* C16: the token-issue endpoint answers a username that no user has and a
\* wrong password for an existing username with the same response, 401
\* "Invalid username or password"; in both cases it returns no access token
\* and creates no refresh session
C16_LoginFailuresIndistinguishable ==
    [][(resp' # resp /\ resp'.endpoint = "issue_user_token") =>
          LET username == resp'.body[1]
              password == resp'.body[2]
          IN
          IF \E u \in users : u.username = username /\ password = <<"pw", u.id>>
          THEN resp'.status_code = 200
          ELSE /\ [resp' EXCEPT !.body = <<>>] = InvalidCredentials
               /\ resp'.access_token = NoAccessToken
               /\ resp'.refresh_token = EmptyText
               /\ UNCHANGED <<sessions, nextId, issued, draws, last>>
      ]_vars

\* C16 witness: the first user's name with the second user's password was
\* answered 401 while both users exist
C16_Witness ==
    /\ resp.endpoint = "issue_user_token"
    /\ resp.status_code = 401
    /\ resp.body = <<UserRow(1, FALSE, FALSE).username, <<"pw", 2>> >>
    /\ UserExists(1) /\ UserExists(2)

\* C17: the access token of a successful login decodes, at every instant
\* before its exp, under the secret and algorithm it was signed with, to
\* claims whose sub is str(id of the user who logged in); presented to the
\* gate before its exp while that user exists, it resolves to that user
C17_LoginTokenResolvesToUser ==
    /\ [](resp.endpoint = "issue_user_token" /\ resp.status_code = 200
            => \E u \in Users :
                  /\ resp.body[1] = UserRow(u, FALSE, FALSE).username
                  /\ resp.access_token.payload.sub = str(u)
                  /\ int(resp.access_token.payload.sub) = u
                  /\ resp.access_token.payload.exp = resp.access_token.payload.iat + AccessTtl
                  /\ \A t \in 0..MaxTime :
                        (resp.access_token.payload.iat <= t
                         /\ t < resp.access_token.payload.exp)
                        => decode_token(resp.access_token, t) = "ok")
    /\ [][(/\ resp.endpoint = "issue_user_token" /\ resp.status_code = 200
           /\ resp'.endpoint = "get_current_user"
           /\ resp'.bearer = resp.access_token
           /\ now < resp.access_token.payload.exp
           /\ \E u \in users : u.username = resp.body[1])
          => /\ resp'.status_code = 200
             /\ \E u \in users : u.username = resp.body[1] /\ resp'.user = u.id
      ]_vars

\* C17 witness: the second user logged in and the gate resolved the access
\* token of that login to the second user
C17_Witness ==
    /\ resp.endpoint = "get_current_user" /\ resp.status_code = 200
    /\ resp.user = 2
    /\ last.op = "create" /\ last.status = "ok"
    /\ \E s \in sessions :
          /\ s.id = last.sid /\ s.user = 2
          /\ s.created_at = resp.bearer.payload.iat
    /\ \E s \in sessions : s.user = 1

C19_GateIgnoresSessions ==
    [][(resp' # resp /\ resp'.endpoint = "get_current_user") =>
          LET token == resp'.bearer IN
          /\ resp'.status_code = 200
                <=> /\ WellSigned(token)
                    /\ token.payload.exp > now
                    /\ \E u \in users : str(u.id) = token.payload.sub
          /\ resp'.status_code = 200 => str(resp'.user) = token.payload.sub
          /\ UNCHANGED sessions
      ]_vars

\* C19 witness: the gate accepted the access token of a login whose refresh
\* session had been revoked, the user holding no active session
C19_Witness ==
    /\ resp.endpoint = "get_current_user" /\ resp.status_code = 200
    /\ \E s \in sessions :
          /\ s.user = resp.user
          /\ s.revoked_at # NULL
          /\ s.created_at = resp.bearer.payload.iat
    /\ \A s \in sessions : s.user = resp.user => ~is_active(s, now)
    /\ last.op = "revoke" /\ last.status = "ok"

\* C20: deleting a user removes exactly the RefreshSession rows of that user
\* (no row of another user changes, no row of a deleted user remains); a
\* rotate that is called afterwards with a token that was returned for a
\* session of the deleted user ends in InvalidRefreshTokenError, and the gate
\* answers a well-signed, unexpired access token of the deleted user with 401
\* "User not found"
C20_DeleteUserCascades ==
    /\ [](\A s \in sessions : UserExists(s.user))
    /\ [][users' # users =>
             \A u \in Users :
                DeleteUser(u) =>
                   /\ ~UserExists(u)'
                   /\ sessions' \subseteq sessions
                   /\ \A s \in sessions :
                         /\ s.user = u => s \notin sessions'
                         /\ s.user # u => s \in sessions'
      ]_vars
    /\ [][\A w \in Workers, t \in Tokens :
             (/\ RotateBegin(w, t)
              /\ \E u \in Users : <<t, u>> \in issuedTo /\ ~UserExists(u))
             => /\ last'.op = "rotate" /\ last'.arg = t
                /\ last'.status = "InvalidRefreshTokenError"
                /\ pc'[w] = "idle"
      ]_vars
    /\ [][(/\ resp' # resp /\ resp'.endpoint = "get_current_user"
           /\ WellSigned(resp'.bearer)
           /\ resp'.bearer.payload.exp > now
           /\ \E u \in Users :
                 resp'.bearer.payload.sub = str(u) /\ ~UserExists(u))
          => resp'.status_code = 401 /\ resp'.detail = "User not found"
      ]_vars

\* C20 witness: user 1 was deleted while user 2 keeps a session; the token
\* returned last for a session of user 1 was refused as invalid afterwards,
\* and user 1's unexpired access token was answered "User not found"
C20_Witness ==
    /\ ~UserExists(1) /\ UserExists(2)
    /\ \E s \in sessions : s.user = 2
    /\ last.op = "rotate" /\ last.status = "InvalidRefreshTokenError"
    /\ <<last.arg, 1>> \in issuedTo
    /\ \E i \in 1..MaxSessions : current[i] = last.arg
    /\ resp.endpoint = "get_current_user"
    /\ resp.status_code = 401 /\ resp.detail = "User not found"
    /\ resp.bearer.payload.sub = str(1)
    /\ resp.bearer.payload.exp > now

\* C21: expires_at of every row is created_at + refresh_token_ttl and no step
\* changes it; a row that is not active (revoked, or expires_at not after the
\* clock) is not active after any step; and no row is active at a clock value
\* of created_at + refresh_token_ttl or later, however often it was rotated
C21_InactiveIsAbsorbing ==
    /\ [](\A s \in sessions :
             /\ s.expires_at = s.created_at + RefreshTtl
             /\ now >= s.created_at + RefreshTtl => ~is_active(s, now))
    /\ [][\A s \in sessions : \A s2 \in sessions' :
             s2.id = s.id =>
                /\ s2.expires_at = s.expires_at
                /\ ~is_active(s, now) => ~is_active(s2, now')
         ]_vars

\* C21 witness: a rotate that had read the row while it was active wrote it
\* at or after its expiry, a second row was revoked, and both are inactive
C21_Witness ==
    \E s, r \in sessions :
       /\ s.rotation_counter > 0
       /\ s.last_used_at >= s.expires_at
       /\ s.expires_at = s.created_at + RefreshTtl
       /\ ~is_active(s, now)
       /\ r.revoked_at # NULL /\ r.expires_at > now

\* the key C23 names for a field: the upper-cased alias when the field has
\* one, else the upper-cased field name; and the value it names
ClaimedKey(field) ==
    upper(IF field.alias # NoAlias THEN field.alias ELSE field.name)

ClaimedValue(field) ==
    IF field.value[1] = "SecretStr" THEN <<"str", field.value[2]>>
    ELSE IF field.value[1] = "SecretBytes" THEN <<"bytes", field.value[2]>>
    ELSE field.value

\* C23: adapt writes one entry for every field of every settings object given:
\* its key is the upper-cased alias of the field (the upper-cased name when
\* it has no alias), its value the field value with secrets unwrapped; of
\* equal keys the entry of the later field stands, and every other key of
\* settings_locals is as it was
C23_AdaptWritesAliasKeys ==
    [][\A settings \in SettingsArgs :
          Adapt(settings) =>
             LET Places == {<<i, j>> \in (1..Len(settings)) \X (1..2) :
                               j <= Len(settings[i])}
                 Later(p, q) == q[1] > p[1] \/ (q[1] = p[1] /\ q[2] > p[2])
                 Written == {ClaimedKey(settings[p[1]][p[2]]) : p \in Places}
             IN
             /\ \A p \in Places :
                   LET field == settings[p[1]][p[2]] IN
                   /\ ClaimedKey(field) \in DOMAIN settings_locals'
                   /\ (~\E q \in Places :
                          /\ Later(p, q)
                          /\ ClaimedKey(settings[q[1]][q[2]]) = ClaimedKey(field))
                      => settings_locals'[ClaimedKey(field)] = ClaimedValue(field)
             /\ DOMAIN settings_locals' = DOMAIN settings_locals \cup Written
             /\ \A k \in DOMAIN settings_locals \ Written :
                   settings_locals'[k] = settings_locals[k]
      ]_vars

\* C29: the token issue_access_token returns for a user id carries
\* sub = str(user_id) and exp = iat + the access-token lifetime, whatever
\* extra claims the caller passed
C29_SubjectAndExpiryFixed ==
    access # NoIssue =>
       /\ access.token.payload.sub = str(access.user_id)
       /\ access.token.payload.exp = access.token.payload.iat + AccessTtl

\* C22: GET /v1/health answers 200 with status "ok" exactly when
\* check_system_health of the controller's service returns, and 503 with
\* detail "Service is unavailable" whenever it raises HealthCheckError (the
\* mocked service, or the real one whose database probe raised an exception);
\* check_system_health turns every exception of the probe into
\* HealthCheckError
C22_HealthMapsProbeToStatus ==
    [][\A service \in HealthServices, probe \in DatabaseProbes :
          health_check(service, probe) =>
             LET completes == service = "HealthService" /\ probe = "ok"
                 fails == \/ service = "MagicMock"
                          \/ probe \notin {"ok", "KeyboardInterrupt"}
             IN
             /\ resp'.endpoint = "health_check"
             /\ (resp'.status_code = 200 /\ resp'.status = "ok") <=> completes
             /\ completes => resp'.raised = "none"
             /\ fails => /\ resp'.status_code = 503
                         /\ resp'.detail = "Service is unavailable"
                         /\ resp'.status = ""
             /\ (probe \notin {"ok", "KeyboardInterrupt"})
                   => check_system_health(probe) = Raised("HealthCheckError")
      ]_vars

\* C22 witness: a health request was answered 503 "Service is unavailable"
\* while the routes behind the gate had been serving a user
C22_Witness ==
    /\ resp.endpoint = "health_check"
    /\ resp.status_code = 503
    /\ resp.detail = "Service is unavailable"
    /\ resp.raised = "HttpError" /\ resp.raised_in = "method"
    /\ \E u \in users : u.is_staff

\* the steps _register_if_missing still has before it at most: for every
\* open call the rest of its loop, for every class without registration its
\* registration and its loop
FrameWork(frame) ==
    IF frame.position = 0 THEN 1
    ELSE 1 + 2 * (Len(annotations[frame.key]) - frame.position + 1)

RECURSIVE StackWork(_)
StackWork(n) == IF n = 0 THEN 0 ELSE FrameWork(stack[n]) + StackWork(n - 1)

RECURSIVE ClassWork(_)
ClassWork(classes) ==
    IF classes = {} THEN 0
    ELSE LET c == CHOOSE x \in classes : TRUE IN
         (IF registrations[c] = <<>> THEN 2 * Len(annotations[c]) + 1 ELSE 0)
            + ClassWork(classes \ {c})

RemainingWork == StackWork(Len(stack)) + ClassWork(Classes)

\* C30: resolve never adds to or replaces the registrations of a key that
\* has one, and resolves such a key from the registration it had; it
\* registers a key at most once; a class is registered before its
\* annotations are visited; and the registration terminates for every
\* dependency graph, cycles included: every step of _register_if_missing
\* lowers a bound on the steps left, and an open call can always step
C30_RegistrationTerminates ==
    /\ [](\A k \in ServiceKeys : registerCalls[k] <= 1)
    /\ [](\A i \in 1..Len(stack) :
             stack[i].position >= 1 => registrations[stack[i].key] # <<>>)
    /\ [](stack # <<>> => ENABLED _register_if_missing)
    /\ [][_register_if_missing =>
             /\ RemainingWork' < RemainingWork
             /\ RemainingWork' >= 0
             /\ \A k \in ServiceKeys :
                   registrations[k] # <<>> => registrations'[k] = registrations[k]
             /\ \A k \in ServiceKeys :
                   registrations[k] = <<>> => Len(registrations'[k]) <= 1
             /\ (stack' = <<>> /\ resolution'.status = "ok") =>
                   /\ resolution'.key = stack[1].key
                   /\ resolution'.registration = Latest(registrations', stack[1].key)
                   /\ registrations[stack[1].key] # <<>> =>
                         resolution'.registration = Latest(registrations, stack[1].key)
         ]_vars

\* C30 witness: two classes that annotate each other were resolved, each
\* registered once, and the settings class they also need, registered
\* explicitly with an instance, kept that registration
C30_Witness ==
    /\ stack = <<>>
    /\ resolution.status = "ok" /\ resolution.key = <<"class", 1>>
    /\ resolution.registration.by = "auto"
    /\ annotations[<<"class", 1>>] = <<<<"class", 2>>, SettingsClass>>
    /\ annotations[<<"class", 2>>] = <<<<"class", 1>>, <<"class", 1>>>>
    /\ registerCalls[<<"class", 1>>] = 1 /\ registerCalls[<<"class", 2>>] = 1
    /\ registerCalls[SettingsClass] = 0
    /\ Latest(registrations, SettingsClass).builder = "instance"

\* C24: revoke_refresh_token(t, caller) tests in this order: the row with the
\* digest of t (none: InvalidRefreshTokenError), its activity (revoked or
\* expired: ExpiredRefreshTokenError, for the owner and for anyone else), its
\* owner (another user: InvalidRefreshTokenError); only a call that passed
\* all three writes, the row it writes is not revoked, and a revoked_at that
\* is set is never written again
C24_RevokeCheckOrder ==
    [][/\ \A w \in Workers, t \in Tokens, caller \in Users :
             RevokeBegin(w, t, caller) =>
                LET match == {s \in sessions :
                                 s.refresh_token_hash = _hash_refresh_token(t)}
                    live == {s \in match : s.revoked_at = NULL /\ s.expires_at > now}
                    own == {s \in live : s.user = caller}
                IN
                /\ sessions' = sessions
                /\ IF match = {}
                   THEN /\ last'.op = "revoke" /\ last'.arg = t
                        /\ last'.status = "InvalidRefreshTokenError"
                        /\ pc'[w] = "idle"
                   ELSE IF live = {}
                   THEN /\ last'.op = "revoke" /\ last'.arg = t
                        /\ last'.status = "ExpiredRefreshTokenError"
                        /\ pc'[w] = "idle"
                   ELSE IF own = {}
                   THEN /\ last'.op = "revoke" /\ last'.arg = t
                        /\ last'.status = "InvalidRefreshTokenError"
                        /\ pc'[w] = "idle"
                   ELSE pc'[w] = "revoke" /\ snap'[w] \in own /\ last' = last
       /\ \A w \in Workers :
             RevokeCommit(w) =>
                \A s \in sessions :
                   s.id = snap[w].id =>
                      /\ s.revoked_at = NULL
                      /\ s.user = snap[w].user
       /\ \A s \in sessions : \A s2 \in sessions' :
             (s2.id = s.id /\ s.revoked_at # NULL) => s2.revoked_at = s.revoked_at
      ]_vars

\* C25: when a revoke and a rotate of the same session overlap, the session
\* is revoked once the revoke has returned success and stays so, a rotate
\* that starts on a revoked session does not succeed, and no rotate returns
\* success for a row that is revoked at the moment the rotate writes it
C25_RevokeBeatsRotate ==
    [][/\ \A w \in Workers :
             (RevokeCommit(w) /\ last'.status = "ok") =>
                \E s \in sessions' : s.id = snap[w].id /\ s.revoked_at # NULL
       /\ \A s \in sessions : \A s2 \in sessions' :
             (s2.id = s.id /\ s.revoked_at # NULL) => s2.revoked_at # NULL
       /\ \A w \in Workers, t \in Tokens :
             (/\ RotateBegin(w, t)
              /\ \E s \in sessions : /\ s.refresh_token_hash = _hash_refresh_token(t)
                                     /\ s.revoked_at # NULL)
             => (pc'[w] = "idle" /\ last'.op = "rotate" /\ last'.status # "ok")
       /\ \A w \in Workers, t \in Tokens :
             (/\ RotateCommit(w, t)
              /\ \E s \in sessions : s.id = snap[w].id /\ s.revoked_at # NULL)
             => last'.status # "ok"
      ]_vars

\* C26: the write of revoke_refresh_token(t, owner) sets revoked_at only on a
\* row that holds the digest of t at that moment: when a rotate has replaced
\* the digest since the revoke read the row, the row is left unrevoked
C26_RevokeOnlyCurrentToken ==
    [][\A w \in Workers :
          RevokeCommit(w) =>
             \A s \in sessions :
                (/\ s.id = snap[w].id
                 /\ s.refresh_token_hash # _hash_refresh_token(arg[w]))
                => \E s2 \in sessions' : s2.id = s.id /\ s2.revoked_at = s.revoked_at
      ]_vars

RefreshTokenErrors == {"InvalidRefreshTokenError", "ExpiredRefreshTokenError"}

\* C27: a rotate or revoke call that ends in InvalidRefreshTokenError or
\* ExpiredRefreshTokenError ends in the step of its lookup and leaves the
\* table as it was: no column of any row changes, no row is added or removed;
\* the writing step of a call never ends in one of the two errors
C27_FailedCallsWriteNothing ==
    [][/\ \A w \in Workers, t \in Tokens :
             (RotateBegin(w, t) /\ pc'[w] = "idle") =>
                /\ last'.op = "rotate" /\ last'.status \in RefreshTokenErrors
                /\ sessions' = sessions /\ nextId' = nextId
       /\ \A w \in Workers, t \in Tokens, u \in Users :
             (RevokeBegin(w, t, u) /\ pc'[w] = "idle") =>
                /\ last'.op = "revoke" /\ last'.status \in RefreshTokenErrors
                /\ sessions' = sessions /\ nextId' = nextId
       /\ \A w \in Workers, t \in Tokens :
             (RotateCommit(w, t) \/ RevokeCommit(w)) =>
                last'.status \notin RefreshTokenErrors
       /\ (last' # last /\ last'.status \in RefreshTokenErrors) =>
             (sessions' = sessions /\ nextId' = nextId)
      ]_vars

\* C27 witness: a revoke by another user than the owner was refused on a
\* session that had been rotated, while the other worker's rotate is open,
\* and the row is as the rotation left it
C27_Witness ==
    /\ last.op = "revoke" /\ last.status = "InvalidRefreshTokenError"
    /\ last.sid # 0
    /\ \E w \in Workers : pc[w] = "rotate"
    /\ \E s \in sessions :
          /\ s.id = last.sid
          /\ s.rotation_counter = 1
          /\ s.revoked_at = NULL
          /\ s.refresh_token_hash = _hash_refresh_token(last.arg)

\* C28: create_refresh_session leaves every existing row as it was (the
\* active ones stay active) and adds at most one; a rotate or revoke that
\* writes changes no row but the one its token's digest matched; and the
\* lookup of a rotate finds an active session whatever happened to the other
\* sessions of its user
C28_SessionsIndependent ==
    [][/\ \A w \in Workers, u \in Users, r \in Requests, t \in Tokens :
             create_refresh_session(w, u, r, t) =>
                /\ sessions \subseteq sessions'
                /\ Cardinality(sessions' \ sessions) <= 1
                /\ \A s \in sessions : is_active(s, now) => is_active(s, now')
       /\ \A w \in Workers, t \in Tokens :
             (RotateCommit(w, t) \/ RevokeCommit(w)) =>
                /\ snap[w].refresh_token_hash = _hash_refresh_token(arg[w])
                /\ \A s \in sessions : s.id # snap[w].id => s \in sessions'
                /\ \A s2 \in sessions' : \E s \in sessions : s.id = s2.id
       /\ \A w \in Workers, t \in Tokens :
             RotateBegin(w, t) =>
                \A s \in sessions :
                   (/\ s.refresh_token_hash = _hash_refresh_token(t)
                    /\ is_active(s, now)
                    /\ \E o \in sessions : /\ o.id # s.id /\ o.user = s.user
                                           /\ o.revoked_at # NULL)
                   => (pc'[w] = "rotate" /\ snap'[w] = s)
      ]_vars

\* C28 witness: a user has two sessions, one is revoked, and the rotate that
\* completed last succeeded on the other one
C28_Witness ==
    /\ last.op = "rotate" /\ last.status = "ok"
    /\ \A w \in Workers : pc[w] = "idle"
    /\ \E s, o \in sessions :
          /\ s.id = last.sid /\ o.id # s.id /\ o.user = s.user
          /\ o.revoked_at # NULL
          /\ s.revoked_at = NULL /\ s.rotation_counter = 1
          /\ s.refresh_token_hash = _hash_refresh_token(last.token)

====
